---- MODULE Spec2Model ----
(***************************************************************************)
(* Invoice-processing workflow: the twelve-stage LangGraph state graph of  *)
(* src/src/agents/graph_builder.py, its stage handlers                     *)
(* (src/src/agents/nodes), the SQL checkpoint store                        *)
(* (src/src/integrations/checkpoint_store.py) and the HTTP operations that *)
(* start, decide and resume workflows (src/src/api/routes).                *)
(*                                                                         *)
(* Values that Python keeps typed are modelled typed: an enum member is    *)
(* <<"enum", v>>, a plain string <<"str", v>>, an absent key <<"none","">>.*)
(* Amounts are integers; scores are kept in units of 1/ScoreScale.         *)
(***************************************************************************)
EXTENDS Integers, Sequences, FiniteSets, TLC

(***************************************************************************)
(* Bounds of the model                                                     *)
(***************************************************************************)
\* HTTP requests (execute / decision / resume / direct invocations) started
MaxRequests == 3
\* injected failures of external collaborators (tools, MCP servers, database)
MaxFaults == 1
\* process restarts (the graph's MemorySaver lives in process memory)
MaxRestarts == 1

(***************************************************************************)
(* Program constants                                                       *)
(***************************************************************************)
\* settings.MATCH_THRESHOLD = 0.90, in units of 1/ScoreScale
MatchThreshold == 9000
\* settings.TWO_WAY_TOLERANCE_PCT
TwoWayTolerancePct == 5
\* approve_node: auto_approval_threshold default 20000.0
AutoApprovalThreshold == 20000
\* approve_node: risk_score > 0.7, in units of 1/ScoreScale
HighRiskScore == 7000
\* approve_node: new vendor and amount > 5000.0
NewVendorAmount == 5000
\* approve_node: state.get("risk_score", 1.0), in units of 1/ScoreScale
DefaultRiskScore == 10000
\* unit of match_score and risk_score: 1.0 is ScoreScale
ScoreScale == 10000

Stages ==
    <<"INTAKE", "UNDERSTAND", "PREPARE", "RETRIEVE", "MATCH_TWO_WAY",
      "CHECKPOINT_HITL", "HITL_DECISION", "RECONCILE", "APPROVE",
      "POSTING", "NOTIFY", "COMPLETE">>

StageSet == {Stages[i] : i \in 1..Len(Stages)}

PreGateStages == {"INTAKE", "UNDERSTAND", "PREPARE", "RETRIEVE", "MATCH_TWO_WAY"}

PostGateStages == {"HITL_DECISION", "RECONCILE", "APPROVE", "POSTING", "NOTIFY", "COMPLETE"}

(***************************************************************************)
(* Typed values                                                            *)
(***************************************************************************)
None == <<"none", "">>

Enum(v) == <<"enum", v>>

Str(v) == <<"str", v>>

\* Python ==: the enums are str subclasses, so a member equals its value
PyEq(a, b) == a # None /\ b # None /\ a[2] = b[2]

\* Python truthiness of an optional string-like value
Truthy(a) == a # None /\ a[2] # ""

\* CheckpointStore._make_serializable on one value: enum -> its value
SerializeValue(a) == IF a[1] = "enum" THEN Str(a[2]) ELSE a

\* CheckpointStore._make_serializable on a datetime: datetime -> ISO string
SerializeTime(t) == IF t = "datetime" THEN "iso" ELSE t

(***************************************************************************)
(* Inputs                                                                  *)
(***************************************************************************)
AllWorkflows == {"w1", "w2"}

Workflows == {"w1"}

Amounts == {15000}

NoPayload == [kind |-> "unset", amount |-> 0, lines |-> 0]

ValidPayloads == {[kind |-> "valid", amount |-> a, lines |-> 1] : a \in Amounts}

\* {} and a payload without invoice_id
InvalidPayloads ==
    {[kind |-> "empty", amount |-> 0, lines |-> 0],
     [kind |-> "no_id", amount |-> 15000, lines |-> 1]}

NoPOs == [n |-> 0, total |-> 0, lines |-> 0]

UnsetPOs == [n |-> -1, total |-> 0, lines |-> 0]

\* what the ERP may answer to fetch_po for an invoice of the given amount
POChoices(amount) ==
    {NoPOs,
     [n |-> 1, total |-> amount, lines |-> 1],
     [n |-> 1, total |-> amount, lines |-> 0]}

UnsetRisk == [risk_score |-> -1, high_risk |-> FALSE, new_vendor |-> FALSE]

\* what compute_flags may answer
RiskChoices ==
    {[risk_score |-> 1500, high_risk |-> FALSE, new_vendor |-> FALSE],
     [risk_score |-> 8000, high_risk |-> TRUE, new_vendor |-> FALSE]}

Decisions == {"ACCEPT", "REJECT"}

Reviewers == {"r1"}

(***************************************************************************)
(* InvoiceWorkflowState: every key with the value that stands for "absent" *)
(***************************************************************************)
EmptyState ==
    [invoice_payload |-> NoPayload,
     workflow_id |-> "",
     created_at |-> "none",
     parsed_invoice |-> NoPayload,
     risk |-> UnsetRisk,
     matched_pos |-> UnsetPOs,
     match_score |-> -1,
     match_result |-> None,
     hitl_checkpoint_id |-> 0,
     human_decision |-> None,
     reviewer_id |-> "",
     accounting_entries |-> FALSE,
     approval_status |-> None,
     posted |-> "none",
     notified |-> FALSE,
     status |-> None,
     current_stage |-> "",
     execution_history |-> <<>>,
     errors |-> <<>>]

\* keys every input state of the API carries, whatever their value
AlwaysKeys == {"invoice_payload", "workflow_id", "current_stage", "execution_history", "errors"}

\* keys present in a state dictionary
KeysOf(st) == AlwaysKeys \cup {k \in DOMAIN st : st[k] # EmptyState[k]}

\* LangGraph with a checkpointer: the input overwrites the channels it names,
\* every other channel keeps the value the thread last had
MergeInput(base, input, keys) ==
    [k \in DOMAIN base |-> IF k \in keys THEN input[k] ELSE base[k]]

\* CheckpointStore._make_serializable on a state
Serialize(st) ==
    [st EXCEPT !.created_at = SerializeTime(@),
               !.match_result = SerializeValue(@),
               !.human_decision = SerializeValue(@),
               !.approval_status = SerializeValue(@),
               !.status = SerializeValue(@)]

(***************************************************************************)
(* Stage handlers.  Each operator gives the graph state after the node's   *)
(* returned update has been merged.  "fault" stands for an exception of an *)
(* external collaborator inside the handler's try block.                   *)
(***************************************************************************)
\* the except branch shared by the handlers: errors.append, status "FAILED"
NodeError(st, stage) ==
    [st EXCEPT !.errors = Append(@, stage), !.status = Str("FAILED")]

\* execution_history.append(execution_log) and current_stage
NodeLog(st, stage) ==
    [st EXCEPT !.execution_history = Append(@, stage), !.current_stage = stage]

intake_node(st, fault) ==
    IF st.invoice_payload.kind # "valid" \/ fault
    THEN NodeError(st, "INTAKE")
    ELSE [NodeLog(st, "INTAKE") EXCEPT
              !.created_at = IF @ = "none" THEN "datetime" ELSE @]

understand_node(st, fault) ==
    IF st.invoice_payload.kind \in {"unset", "empty"} \/ fault
    THEN NodeError(st, "UNDERSTAND")
    ELSE [NodeLog(st, "UNDERSTAND") EXCEPT !.parsed_invoice = st.invoice_payload]

prepare_node(st, fault, risk) ==
    IF st.parsed_invoice.kind = "unset" \/ fault
    THEN NodeError(st, "PREPARE")
    ELSE [NodeLog(st, "PREPARE") EXCEPT !.risk = risk]

retrieve_node(st, fault, pos) ==
    IF st.parsed_invoice.kind = "unset" \/ fault
    THEN NodeError(st, "RETRIEVE")
    ELSE [NodeLog(st, "RETRIEVE") EXCEPT !.matched_pos = pos]

\* match_node divides by the invoice amount only on these paths
MatchDividesByZero(inv, pos) ==
    /\ pos.n > 0
    /\ inv = 0
    /\ 100 * pos.total > inv * TwoWayTolerancePct

Abs(x) == IF x < 0 THEN -x ELSE x

Max(a, b) == IF a >= b THEN a ELSE b

Min(a, b) == IF a <= b THEN a ELSE b

\* amount_score as the fraction <<numerator, denominator>>
AmountScore(inv, pos) ==
    IF pos.n <= 0 THEN <<0, 1>>
    ELSE LET diff == Abs(inv - pos.total) IN
         IF 100 * diff <= inv * TwoWayTolerancePct
         THEN IF inv > 0 THEN <<inv - diff, inv>> ELSE <<1, 1>>
         ELSE <<Max(0, inv - diff), inv>>

\* line_item_score as the fraction <<numerator, denominator>>
LineItemScore(invLines, pos) ==
    IF invLines > 0 /\ pos.n > 0
    THEN IF invLines = pos.lines THEN <<1, 1>>
         ELSE IF pos.lines > 0
              THEN <<Min(invLines, pos.lines), Max(invLines, pos.lines)>>
              ELSE <<0, 1>>
    ELSE <<0, 1>>

\* date_score: 1 when purchase orders were found (the invoice date is present)
DateScore(pos) == IF pos.n > 0 THEN 1 ELSE 0

\* weights 0.4 / 0.3 / 0.1 / 0.2, vendor_score = 1.0; result in 1/ScoreScale
MatchScore(inv, invLines, pos) ==
    LET a == AmountScore(inv, pos)
        l == LineItemScore(invLines, pos)
        num == 4 * a[1] * l[2] + 3 * l[1] * a[2] + (DateScore(pos) + 2) * a[2] * l[2]
        den == a[2] * l[2]
    IN ((ScoreScale \div 10) * num) \div den

\* the comparison with > in place of >=
StrictMatchDecision(score) == IF score > MatchThreshold THEN "PASSED" ELSE "FAILED"

MatchDecision(score) == IF score >= MatchThreshold THEN "PASSED" ELSE "FAILED"

match_node(st) ==
    LET inv == st.parsed_invoice.amount
        pos == IF st.matched_pos.n < 0 THEN NoPOs ELSE st.matched_pos
    IN IF st.parsed_invoice.kind = "unset" \/ MatchDividesByZero(inv, pos)
       THEN [NodeError(st, "MATCH_TWO_WAY") EXCEPT !.match_result = Enum("FAILED")]
       ELSE LET score == MatchScore(inv, st.parsed_invoice.lines, pos) IN
            [NodeLog(st, "MATCH_TWO_WAY") EXCEPT
                 !.match_score = score,
                 !.match_result = Enum(MatchDecision(score))]

\* checkpoint_node: which of its two store writes raises, if any
StoreFaults == {"none", "save", "ticket"}

\* the gate takes its creating branch only for a failed match
GateCreates(st) == PyEq(st.match_result, Enum("FAILED"))

checkpoint_node(st, id, storeFault) ==
    IF ~GateCreates(st)
    THEN [st EXCEPT !.current_stage = "CHECKPOINT_HITL"]
    ELSE IF storeFault # "none"
         THEN NodeError(st, "CHECKPOINT_HITL")
         ELSE [NodeLog(st, "CHECKPOINT_HITL") EXCEPT
                   !.hitl_checkpoint_id = id,
                   !.status = Str("PAUSED")]

\* the update of the success branch with the id under the key "checkpoint_id"
UpdateKeysWithCheckpointId(st, storeFault) ==
    IF ~GateCreates(st) THEN {"current_stage", "updated_at"}
    ELSE IF storeFault # "none" THEN {"errors", "status"}
    ELSE {"checkpoint_id", "review_url", "paused_reason", "current_stage", "status",
          "execution_history", "updated_at"}

\* the keys of the dictionary checkpoint_node returns
checkpoint_update_keys(st, storeFault) ==
    IF ~GateCreates(st) THEN {"current_stage", "updated_at"}
    ELSE IF storeFault # "none" THEN {"errors", "status"}
    ELSE {"hitl_checkpoint_id", "review_url", "paused_reason", "current_stage", "status",
          "execution_history", "updated_at"}

\* hitl_node raises before it touches the store: no decision, an invalid one,
\* or a decision that is a plain string (human_decision.value)
HitlRejectsState(st) ==
    \/ ~Truthy(st.human_decision)
    \/ st.human_decision[2] \notin Decisions
    \/ st.human_decision[1] # "enum"

hitl_node(st, fault) ==
    IF HitlRejectsState(st) \/ (st.hitl_checkpoint_id # 0 /\ fault)
    THEN NodeError(st, "HITL_DECISION")
    ELSE NodeLog(st, "HITL_DECISION")

reconcile_node(st) ==
    IF st.parsed_invoice.kind = "unset"
    THEN NodeError(st, "RECONCILE")
    ELSE [NodeLog(st, "RECONCILE") EXCEPT !.accounting_entries = TRUE]

\* the policy with an exclusive amount threshold
PolicyBelowThresholdOnly(amount, risk_score, flags) ==
    IF risk_score > HighRiskScore THEN "PENDING_APPROVAL"
    ELSE IF flags.high_risk THEN "PENDING_APPROVAL"
    ELSE IF flags.new_vendor /\ amount > NewVendorAmount THEN "PENDING_APPROVAL"
    ELSE IF amount < AutoApprovalThreshold THEN "AUTO_APPROVED"
    ELSE "PENDING_APPROVAL"

_apply_approval_policy(amount, risk_score, flags) ==
    IF risk_score > HighRiskScore THEN "PENDING_APPROVAL"
    ELSE IF flags.high_risk THEN "PENDING_APPROVAL"
    ELSE IF flags.new_vendor /\ amount > NewVendorAmount THEN "PENDING_APPROVAL"
    ELSE IF amount <= AutoApprovalThreshold THEN "AUTO_APPROVED"
    ELSE "PENDING_APPROVAL"

approve_node(st) ==
    IF st.parsed_invoice.kind = "unset"
    THEN NodeError(st, "APPROVE")
    ELSE LET rs == IF st.risk.risk_score < 0 THEN DefaultRiskScore ELSE st.risk.risk_score IN
         [NodeLog(st, "APPROVE") EXCEPT
              !.approval_status =
                  Enum(_apply_approval_policy(st.parsed_invoice.amount, rs, st.risk))]

\* the ERP call is made only when there are accounting entries
PostingCallsErp(st) == st.accounting_entries

\* a POSTING handler that logs a failed posting without recording an error
PostingFailsSilently(st, fault) ==
    IF ~PostingCallsErp(st) \/ fault
    THEN [NodeLog(st, "POSTING") EXCEPT !.posted = "false"]
    ELSE [NodeLog(st, "POSTING") EXCEPT !.posted = "true"]

posting_node(st, fault) ==
    IF ~PostingCallsErp(st) \/ fault
    THEN [NodeError(st, "POSTING") EXCEPT !.posted = "false"]
    ELSE [NodeLog(st, "POSTING") EXCEPT !.posted = "true"]

notify_node(st, fault) ==
    IF st.parsed_invoice.kind = "unset" \/ fault
    THEN NodeError(st, "NOTIFY")
    ELSE [NodeLog(st, "NOTIFY") EXCEPT !.notified = TRUE]

\* complete_node lines 37-49
\* a final status chosen without looking at the errors list
StatusIgnoringErrors(st) ==
    IF PyEq(st.human_decision, Enum("REJECT")) THEN "MANUAL_HANDOFF" ELSE "COMPLETED"

FinalStatus(st) ==
    IF st.errors # <<>> THEN "FAILED"
    ELSE IF PyEq(st.human_decision, Enum("REJECT")) THEN "MANUAL_HANDOFF"
    ELSE "COMPLETED"

\* building final_payload reads approval_status.value: a plain string raises
CompleteRaises(st) == st.approval_status # None /\ st.approval_status[1] # "enum"

\* a COMPLETE handler that logs the stage and leaves status as it found it
CompleteKeepsStatus(st) == NodeLog(st, "COMPLETE")

complete_node(st) ==
    IF CompleteRaises(st)
    THEN [st EXCEPT !.errors = Append(@, "COMPLETE"), !.status = Enum("FAILED")]
    ELSE [NodeLog(st, "COMPLETE") EXCEPT !.status = Enum(FinalStatus(st))]

(***************************************************************************)
(* Routers and edges of build_invoice_graph; "END" is LangGraph's END      *)
(***************************************************************************)
\* a router that sends every match on to RECONCILE
MatchAlwaysReconciles(st) == "RECONCILE"

route_after_match(st) ==
    IF PyEq(st.match_result, Enum("FAILED")) THEN "CHECKPOINT_HITL" ELSE "RECONCILE"

route_after_checkpoint(st) ==
    IF Truthy(st.human_decision) THEN "HITL_DECISION" ELSE "END"

\* a router that sends every decision on to RECONCILE
HitlAlwaysReconciles(st) == "RECONCILE"

\* a router that ends the invocation after HITL_DECISION
HitlSuspends(st) == "END"

route_after_hitl(st) ==
    IF PyEq(st.human_decision, Enum("ACCEPT")) THEN "RECONCILE" ELSE "COMPLETE"

\* the stage that runs after "stage" has left the graph in state st
NextStage(stage, st) ==
    CASE stage = "INTAKE" -> "UNDERSTAND"
      [] stage = "UNDERSTAND" -> "PREPARE"
      [] stage = "PREPARE" -> "RETRIEVE"
      [] stage = "RETRIEVE" -> "MATCH_TWO_WAY"
      [] stage = "MATCH_TWO_WAY" -> route_after_match(st)
      [] stage = "CHECKPOINT_HITL" -> route_after_checkpoint(st)
      [] stage = "HITL_DECISION" -> route_after_hitl(st)
      [] stage = "RECONCILE" -> "APPROVE"
      [] stage = "APPROVE" -> "POSTING"
      [] stage = "POSTING" -> "NOTIFY"
      [] stage = "NOTIFY" -> "COMPLETE"
      [] stage = "COMPLETE" -> "END"

\* workflow.set_entry_point
EntryPoint == "INTAKE"

(***************************************************************************)
(* State                                                                   *)
(***************************************************************************)
VARIABLES
    runs,         \* the requests being served: the position and state of each graph run
    thread,       \* MemorySaver: the channel values last written for each thread id
    issued,       \* workflow ids handed out so far
    checkpoints,  \* table "checkpoints", by checkpoint id
    tickets,      \* table "human_review_queue", by checkpoint id
    ckptCount,    \* checkpoint ids generated so far
    calls,        \* per thread id and stage: how often the stage handler was invoked
    erpPosts,     \* per thread id: successful post_to_erp calls
    requests,     \* requests started
    faults,       \* failures injected
    restarts      \* process restarts

vars == <<runs, thread, issued, checkpoints, tickets, ckptCount, calls, erpPosts,
          requests, faults, restarts>>

Slots == {1}

ConcurrentSlots == {1, 2}

\* checkpoint ids are 1, 2, ...; 0 is an id the store never issued
CkptIds == 1..MaxRequests

NoCheckpoint == [present |-> FALSE, workflow_id |-> "", state_blob |-> EmptyState, status |-> ""]

NoTicket == [status |-> "none", decision |-> "", reviewer_id |-> "", reviewed_at |-> 0]

IdleRun ==
    [pc |-> "idle", kind |-> "none", wf |-> "", ckpt |-> 0, st |-> EmptyState,
     invoked |-> <<>>, http |-> 0]

InitWith(slots) ==
    /\ runs = [s \in slots |-> IdleRun]
    /\ thread = [w \in AllWorkflows |-> EmptyState]
    /\ issued = {}
    /\ checkpoints = [c \in CkptIds |-> NoCheckpoint]
    /\ tickets = [c \in CkptIds |-> NoTicket]
    /\ ckptCount = 0
    /\ calls = [w \in AllWorkflows |-> [g \in StageSet |-> 0]]
    /\ erpPosts = [w \in AllWorkflows |-> 0]
    /\ requests = 0
    /\ faults = 0
    /\ restarts = 0

Init == InitWith(Slots)

(***************************************************************************)
(* CheckpointStore                                                         *)
(***************************************************************************)
\* load_checkpoint: the stored state_blob, or nothing
HasCheckpoint(c) == c \in CkptIds /\ checkpoints[c].present

load_checkpoint(c) == checkpoints[c].state_blob

\* save_checkpoint: session.merge of a row with the serialised state
save_checkpoint(cps, c, st) ==
    [cps EXCEPT ![c] = [present |-> TRUE, workflow_id |-> st.workflow_id,
                        state_blob |-> Serialize(st), status |-> "active"]]

\* a store whose create_review_ticket writes no row
TicketNotWritten(tks, c) == tks

\* create_review_ticket: session.merge of a pending row
create_review_ticket(tks, c) ==
    [tks EXCEPT ![c] = [status |-> "pending", decision |-> "", reviewer_id |-> "",
                        reviewed_at |-> 0]]

\* a store whose update_review_decision records the decision without
\* changing the ticket's status
DecisionLeftPending(tks, c, decision, reviewer) ==
    IF c \notin CkptIds \/ tks[c].status = "none"
    THEN tks
    ELSE [tks EXCEPT ![c].decision = decision, ![c].reviewer_id = reviewer,
                     ![c].reviewed_at = @ + 1]

\* update_review_decision: no row -> returns False; otherwise the row is
\* overwritten, whatever its status
update_review_decision(tks, c, decision, reviewer) ==
    IF c \notin CkptIds \/ tks[c].status = "none"
    THEN tks
    ELSE [tks EXCEPT ![c] = [status |-> "reviewed", decision |-> decision,
                             reviewer_id |-> reviewer,
                             reviewed_at |-> tks[c].reviewed_at + 1]]

\* list_pending_reviews
list_pending_reviews == {c \in CkptIds : tickets[c].status = "pending"}

(***************************************************************************)
(* Requests                                                                *)
(***************************************************************************)
SlotFree(s) == runs[s].pc \in {"idle", "done"}

FaultOptions == IF faults < MaxFaults THEN BOOLEAN ELSE {FALSE}

CountFault(fault) == faults' = IF fault THEN faults + 1 ELSE faults

\* graph.ainvoke(input, config): the run starts at the entry point, on the
\* thread's channels overwritten by the input
StartRun(s, kind, w, c, input, keys) ==
    LET st0 == MergeInput(thread[w], input, keys) IN
    /\ runs' = [runs EXCEPT ![s] = [pc |-> EntryPoint, kind |-> kind, wf |-> w,
                                    ckpt |-> c, st |-> st0, invoked |-> <<>>, http |-> 0]]
    /\ thread' = [thread EXCEPT ![w] = st0]

\* a request that is answered 200 whatever the handler raised
ReplyAccepted(s, kind, c, code) ==
    /\ runs' = [runs EXCEPT ![s] = [IdleRun EXCEPT !.pc = "done", !.kind = kind,
                                                  !.ckpt = c, !.http = 200]]
    /\ UNCHANGED thread

\* a request answered without a graph run
Reply(s, kind, c, code) ==
    /\ runs' = [runs EXCEPT ![s] = [IdleRun EXCEPT !.pc = "done", !.kind = kind,
                                                  !.ckpt = c, !.http = code]]
    /\ UNCHANGED thread

\* POST /workflow/execute
execute_workflow(s, w, payload) ==
    /\ SlotFree(s)
    /\ requests < MaxRequests
    /\ w \notin issued
    /\ StartRun(s, "execute", w, 0,
                [EmptyState EXCEPT !.invoice_payload = payload, !.workflow_id = w,
                                   !.current_stage = "INTAKE"],
                AlwaysKeys)
    /\ issued' = issued \cup {w}
    /\ requests' = requests + 1
    /\ UNCHANGED <<checkpoints, tickets, ckptCount, calls, erpPosts, faults, restarts>>

\* graph.ainvoke on a hand-built initial state (tests, demo): any payload
invoke_graph(s, w, payload) ==
    /\ SlotFree(s)
    /\ requests < MaxRequests
    /\ w \notin issued
    /\ StartRun(s, "invoke", w, 0,
                [EmptyState EXCEPT !.invoice_payload = payload, !.workflow_id = w,
                                   !.current_stage = "INTAKE", !.created_at = "datetime"],
                AlwaysKeys \cup {"created_at"})
    /\ issued' = issued \cup {w}
    /\ requests' = requests + 1
    /\ UNCHANGED <<checkpoints, tickets, ckptCount, calls, erpPosts, faults, restarts>>

\* the state submit_decision hands to the graph
DecisionInput(snapshot, d, r) ==
    [snapshot EXCEPT !.human_decision = Enum(d), !.reviewer_id = r]

\* decision strings a client may send
RawDecisions == {"ACCEPT", "REJECT", "accept", "Reject", "MAYBE", ""}

\* a decision string compared as it was sent
AsSent(d) == d

\* str.upper() on the decision strings
Upper(d) ==
    CASE d = "accept" -> "ACCEPT"
      [] d = "Reject" -> "REJECT"
      [] OTHER -> d

\* POST /human-review/decision
submit_decision(s, c, d, r, fault) ==
    /\ SlotFree(s)
    /\ requests < MaxRequests
    /\ requests' = requests + 1
    /\ CountFault(fault)
    /\ UNCHANGED <<issued, checkpoints, ckptCount, calls, erpPosts, restarts>>
    /\ IF Upper(d) \notin Decisions
       THEN /\ ~fault
            /\ Reply(s, "bad_decision", c, 400)
            /\ UNCHANGED tickets
       ELSE IF ~HasCheckpoint(c)
       THEN /\ ~fault
            /\ Reply(s, "decision", c, 404)
            /\ UNCHANGED tickets
       ELSE IF fault
       THEN /\ Reply(s, "decision", c, 500)
            /\ UNCHANGED tickets
       ELSE LET snapshot == load_checkpoint(c) IN
            /\ tickets' = update_review_decision(tickets, c, Upper(d), r)
            /\ StartRun(s, "decision", snapshot.workflow_id, c,
                        DecisionInput(snapshot, Upper(d), r),
                        KeysOf(snapshot) \cup {"human_decision", "reviewer_id"})

\* POST /workflow/{workflow_id}/resume
resume_workflow(s, w, c) ==
    /\ SlotFree(s)
    /\ requests < MaxRequests
    /\ requests' = requests + 1
    /\ UNCHANGED <<issued, checkpoints, tickets, ckptCount, calls, erpPosts, faults, restarts>>
    /\ IF ~HasCheckpoint(c)
       THEN Reply(s, "resume", c, 404)
       ELSE LET snapshot == load_checkpoint(c) IN
            StartRun(s, "resume", w, c, snapshot, KeysOf(snapshot))

\* the process is restarted while no request is being served
ProcessRestart ==
    /\ restarts < MaxRestarts
    /\ \A s \in DOMAIN runs : SlotFree(s)
    /\ \E w \in AllWorkflows : thread[w] # EmptyState
    /\ restarts' = restarts + 1
    /\ thread' = [w \in AllWorkflows |-> EmptyState]
    /\ runs' = [s \in DOMAIN runs |-> IdleRun]
    /\ UNCHANGED <<issued, checkpoints, tickets, ckptCount, calls, erpPosts, requests, faults>>

(***************************************************************************)
(* Graph steps: one stage handler of one run, then the edge out of it.     *)
(* After every step LangGraph writes the run's channels to the thread.     *)
(***************************************************************************)
Step(s, stage, st2) ==
    LET nxt == NextStage(stage, st2) IN
    /\ runs' = [runs EXCEPT ![s].st = st2,
                            ![s].invoked = Append(@, stage),
                            ![s].pc = IF nxt = "END" THEN "done" ELSE nxt,
                            ![s].http = IF nxt = "END" THEN 200 ELSE @]
    /\ thread' = [thread EXCEPT ![runs[s].wf] = st2]
    /\ calls' = [calls EXCEPT ![runs[s].wf][stage] = @ + 1]

StepIntake(s, fault) ==
    /\ runs[s].pc = "INTAKE"
    /\ fault => runs[s].st.invoice_payload.kind = "valid"
    /\ CountFault(fault)
    /\ Step(s, "INTAKE", intake_node(runs[s].st, fault))
    /\ UNCHANGED <<issued, checkpoints, tickets, ckptCount, erpPosts, requests, restarts>>

StepUnderstand(s, fault) ==
    /\ runs[s].pc = "UNDERSTAND"
    /\ fault => runs[s].st.invoice_payload.kind \notin {"unset", "empty"}
    /\ CountFault(fault)
    /\ Step(s, "UNDERSTAND", understand_node(runs[s].st, fault))
    /\ UNCHANGED <<issued, checkpoints, tickets, ckptCount, erpPosts, requests, restarts>>

StepPrepare(s, fault, risk) ==
    /\ runs[s].pc = "PREPARE"
    /\ fault => runs[s].st.parsed_invoice.kind # "unset"
    /\ CountFault(fault)
    /\ Step(s, "PREPARE", prepare_node(runs[s].st, fault, risk))
    /\ UNCHANGED <<issued, checkpoints, tickets, ckptCount, erpPosts, requests, restarts>>

StepRetrieve(s, fault, pos) ==
    /\ runs[s].pc = "RETRIEVE"
    /\ fault => runs[s].st.parsed_invoice.kind # "unset"
    /\ CountFault(fault)
    /\ Step(s, "RETRIEVE", retrieve_node(runs[s].st, fault, pos))
    /\ UNCHANGED <<issued, checkpoints, tickets, ckptCount, erpPosts, requests, restarts>>

StepMatch(s) ==
    /\ runs[s].pc = "MATCH_TWO_WAY"
    /\ Step(s, "MATCH_TWO_WAY", match_node(runs[s].st))
    /\ UNCHANGED <<issued, checkpoints, tickets, ckptCount, erpPosts, requests, faults, restarts>>

\* the store after checkpoint_node: save_checkpoint, then create_review_ticket
GateCheckpoints(st, id, storeFault) ==
    IF GateCreates(st) /\ storeFault # "save"
    THEN save_checkpoint(checkpoints, id, st)
    ELSE checkpoints

GateTickets(st, id, storeFault) ==
    IF GateCreates(st) /\ storeFault = "none"
    THEN create_review_ticket(tickets, id)
    ELSE tickets

StepCheckpoint(s, storeFault) ==
    LET st == runs[s].st
        id == ckptCount + 1
    IN
    /\ runs[s].pc = "CHECKPOINT_HITL"
    /\ storeFault # "none" => faults < MaxFaults /\ GateCreates(st)
    /\ faults' = IF storeFault # "none" THEN faults + 1 ELSE faults
    /\ ckptCount' = IF GateCreates(st) THEN id ELSE ckptCount
    /\ checkpoints' = GateCheckpoints(st, id, storeFault)
    /\ tickets' = GateTickets(st, id, storeFault)
    /\ Step(s, "CHECKPOINT_HITL", checkpoint_node(st, id, storeFault))
    /\ UNCHANGED <<issued, erpPosts, requests, restarts>>

\* hitl_node writes the decision to the ticket named by hitl_checkpoint_id
HitlTickets(st, fault) ==
    IF HitlRejectsState(st) \/ st.hitl_checkpoint_id = 0 \/ fault
    THEN tickets
    ELSE update_review_decision(tickets, st.hitl_checkpoint_id, st.human_decision[2],
                                IF st.reviewer_id = "" THEN "system" ELSE st.reviewer_id)

StepHitl(s, fault) ==
    LET st == runs[s].st IN
    /\ runs[s].pc = "HITL_DECISION"
    /\ fault => ~HitlRejectsState(st) /\ st.hitl_checkpoint_id # 0
    /\ CountFault(fault)
    /\ tickets' = HitlTickets(st, fault)
    /\ Step(s, "HITL_DECISION", hitl_node(st, fault))
    /\ UNCHANGED <<issued, checkpoints, ckptCount, erpPosts, requests, restarts>>

StepReconcile(s) ==
    /\ runs[s].pc = "RECONCILE"
    /\ Step(s, "RECONCILE", reconcile_node(runs[s].st))
    /\ UNCHANGED <<issued, checkpoints, tickets, ckptCount, erpPosts, requests, faults, restarts>>

StepApprove(s) ==
    /\ runs[s].pc = "APPROVE"
    /\ Step(s, "APPROVE", approve_node(runs[s].st))
    /\ UNCHANGED <<issued, checkpoints, tickets, ckptCount, erpPosts, requests, faults, restarts>>

StepPosting(s, fault) ==
    LET st == runs[s].st IN
    /\ runs[s].pc = "POSTING"
    /\ fault => PostingCallsErp(st)
    /\ CountFault(fault)
    /\ erpPosts' = IF PostingCallsErp(st) /\ ~fault
                   THEN [erpPosts EXCEPT ![runs[s].wf] = @ + 1]
                   ELSE erpPosts
    /\ Step(s, "POSTING", posting_node(st, fault))
    /\ UNCHANGED <<issued, checkpoints, tickets, ckptCount, requests, restarts>>

StepNotify(s, fault) ==
    /\ runs[s].pc = "NOTIFY"
    /\ fault => runs[s].st.parsed_invoice.kind # "unset"
    /\ CountFault(fault)
    /\ Step(s, "NOTIFY", notify_node(runs[s].st, fault))
    /\ UNCHANGED <<issued, checkpoints, tickets, ckptCount, erpPosts, requests, restarts>>

StepComplete(s) ==
    /\ runs[s].pc = "COMPLETE"
    /\ Step(s, "COMPLETE", complete_node(runs[s].st))
    /\ UNCHANGED <<issued, checkpoints, tickets, ckptCount, erpPosts, requests, faults, restarts>>

(***************************************************************************)
(* Specifications                                                          *)
(***************************************************************************)
\* checkpoint ids a client can name: the ones issued, and one never issued
KnownIds == 0..ckptCount

NextWith(slots, wfs) ==
    \/ \E s \in slots, w \in wfs, p \in ValidPayloads : execute_workflow(s, w, p)
    \/ \E s \in slots, w \in wfs, p \in InvalidPayloads : invoke_graph(s, w, p)
    \/ \E s \in slots, c \in KnownIds, d \in RawDecisions, r \in Reviewers, f \in FaultOptions :
           submit_decision(s, c, d, r, f)
    \/ \E s \in slots, w \in wfs, c \in KnownIds : resume_workflow(s, w, c)
    \/ ProcessRestart
    \/ \E s \in slots, f \in FaultOptions : StepIntake(s, f)
    \/ \E s \in slots, f \in FaultOptions : StepUnderstand(s, f)
    \/ \E s \in slots, f \in FaultOptions, k \in RiskChoices : StepPrepare(s, f, k)
    \/ \E s \in slots, f \in FaultOptions :
           \E pos \in POChoices(runs[s].st.parsed_invoice.amount) : StepRetrieve(s, f, pos)
    \/ \E s \in slots : StepMatch(s)
    \/ \E s \in slots, sf \in StoreFaults : StepCheckpoint(s, sf)
    \/ \E s \in slots, f \in FaultOptions : StepHitl(s, f)
    \/ \E s \in slots : StepReconcile(s)
    \/ \E s \in slots : StepApprove(s)
    \/ \E s \in slots, f \in FaultOptions : StepPosting(s, f)
    \/ \E s \in slots, f \in FaultOptions : StepNotify(s, f)
    \/ \E s \in slots : StepComplete(s)

Next == NextWith(Slots, Workflows)

Spec == Init /\ [][Next]_vars

\* fault-free executions with two requests in flight at once
InitConc == InitWith(ConcurrentSlots)

NextConc ==
    \/ \E s \in ConcurrentSlots, w \in Workflows, p \in ValidPayloads : execute_workflow(s, w, p)
    \/ \E s \in ConcurrentSlots, c \in KnownIds, d \in Decisions, r \in Reviewers :
           submit_decision(s, c, d, r, FALSE)
    \/ \E s \in ConcurrentSlots : StepIntake(s, FALSE)
    \/ \E s \in ConcurrentSlots : StepUnderstand(s, FALSE)
    \/ \E s \in ConcurrentSlots, k \in RiskChoices : StepPrepare(s, FALSE, k)
    \/ \E s \in ConcurrentSlots :
           \E pos \in POChoices(runs[s].st.parsed_invoice.amount) : StepRetrieve(s, FALSE, pos)
    \/ \E s \in ConcurrentSlots : StepMatch(s)
    \/ \E s \in ConcurrentSlots : StepCheckpoint(s, "none")
    \/ \E s \in ConcurrentSlots : StepHitl(s, FALSE)
    \/ \E s \in ConcurrentSlots : StepReconcile(s)
    \/ \E s \in ConcurrentSlots : StepApprove(s)
    \/ \E s \in ConcurrentSlots : StepPosting(s, FALSE)
    \/ \E s \in ConcurrentSlots : StepNotify(s, FALSE)
    \/ \E s \in ConcurrentSlots : StepComplete(s)

SpecConc == InitConc /\ [][NextConc]_vars

(***************************************************************************)
(* Properties                                                              *)
(***************************************************************************)
\* a slot whose request started a graph run
HasRun(s) == runs[s].wf # ""

\* a graph run started from a stored checkpoint
Resumed(s) == HasRun(s) /\ runs[s].kind \in {"decision", "resume"}

InFlight(s) == runs[s].pc \in StageSet

Returned(s) == HasRun(s) /\ runs[s].pc = "done"

StageIndex(x) == CHOOSE i \in 1..Len(Stages) : Stages[i] = x

NoPreGate(inv) == \A i \in 1..Len(inv) : inv[i] \notin PreGateStages

NoPostGate(inv) == \A i \in 1..Len(inv) : inv[i] \notin PostGateStages

IsGateOrLater(x) == x \notin PreGateStages

\* the stages a run invoked from the gate on
FromGate(inv) == SelectSeq(inv, IsGateOrLater)

InExecutionOrder(h) ==
    \A i, j \in 1..Len(h) : i < j => StageIndex(h[i]) < StageIndex(h[j])

\* C1: a run resumed from a checkpoint starts at the gate and never at
\* INTAKE: it is never positioned at, and never invokes, one of the handlers
\* INTAKE, UNDERSTAND, PREPARE, RETRIEVE, MATCH_TWO_WAY.
C1_ResumeStartsAtGate ==
    \A s \in Slots :
        Resumed(s) => runs[s].pc \notin PreGateStages /\ NoPreGate(runs[s].invoked)

\* C2: over any sequence of execute, decision and resume calls every stage
\* handler is invoked at most once for a workflow.
C2_HandlersAtMostOnce ==
    \A w \in AllWorkflows, stage \in StageSet : calls[w][stage] <= 1

\* C3: execution_history holds at most one entry per stage, in execution
\* order, in the state of every run and of every thread.
C3_HistoryOneEntryPerStage ==
    /\ \A s \in Slots : InExecutionOrder(runs[s].st.execution_history)
    /\ \A w \in AllWorkflows : InExecutionOrder(thread[w].execution_history)

\* C4: a decision submitted for a ticket that is already reviewed is
\* rejected: the ticket keeps its decision, reviewer and timestamp and no
\* graph run is started.
C4_DecisionRecordedOnce ==
    [][\A s \in Slots, c \in CkptIds, d \in Decisions, r \in Reviewers :
          (tickets[c].status = "reviewed" /\ submit_decision(s, c, d, r, FALSE))
              => (tickets'[c] = tickets[c] /\ runs'[s].wf = "")]_vars

\* C5: two decision runs for the same workflow and checkpoint are never in
\* flight together: one passes, the other is refused.
C5_OneResumeAtATime ==
    \A s1, s2 \in ConcurrentSlots :
        (s1 # s2 /\ Resumed(s1) /\ Resumed(s2) /\ InFlight(s1) /\ InFlight(s2))
            => (runs[s1].wf # runs[s2].wf \/ runs[s1].ckpt # runs[s2].ckpt)

\* C6: when a handler of a run appends an error, the run halts at that
\* step with status FAILED.
C6_ErrorHaltsRun ==
    [][\A s \in Slots :
          (InFlight(s) /\ Len(runs'[s].st.errors) > Len(runs[s].st.errors))
              => (runs'[s].pc = "done" /\ PyEq(runs'[s].st.status, Str("FAILED")))]_vars

\* C7: a graph invocation on an empty or incomplete payload returns with a
\* non-empty errors list and status FAILED.
C7_InvalidPayloadFails ==
    \A s \in Slots :
        (Returned(s) /\ runs[s].kind = "invoke"
            /\ runs[s].st.invoice_payload \in InvalidPayloads)
        => (runs[s].st.errors # <<>> /\ PyEq(runs[s].st.status, Str("FAILED")))

\* the gate step of a run whose match failed and that carries no decision
GatePauseCase(s) ==
    /\ runs[s].pc = "CHECKPOINT_HITL"
    /\ runs'[s].pc # "CHECKPOINT_HITL"
    /\ GateCreates(runs[s].st)
    /\ ~Truthy(runs[s].st.human_decision)

\* that step pauses the run on a fresh checkpoint and a pending ticket
GatePaused(s) ==
    LET id == ckptCount + 1 IN
    /\ ~HasCheckpoint(id)
    /\ ckptCount' = id
    /\ checkpoints'[id].present
    /\ checkpoints'[id].workflow_id = runs[s].wf
    /\ checkpoints'[id].state_blob = Serialize(runs[s].st)
    /\ tickets'[id].status = "pending"
    /\ runs'[s].st.hitl_checkpoint_id = id
    /\ PyEq(runs'[s].st.status, Str("PAUSED"))
    /\ runs'[s].pc = "done"
    /\ NoPostGate(runs'[s].invoked)

\* that step fails on a store write: the run still halts at the gate
GateStoreFailed(s) ==
    /\ faults' = faults + 1
    /\ tickets' = tickets
    /\ Len(runs'[s].st.errors) = Len(runs[s].st.errors) + 1
    /\ PyEq(runs'[s].st.status, Str("FAILED"))
    /\ runs'[s].pc = "done"
    /\ NoPostGate(runs'[s].invoked)

\* a run that returns PAUSED leaves its checkpoint and a pending ticket stored
PausedReturnIsBacked(s) ==
    (runs[s].pc # "done" /\ runs'[s].pc = "done" /\ runs'[s].wf # ""
        /\ PyEq(runs'[s].st.status, Str("PAUSED")))
    => LET id == runs'[s].st.hitl_checkpoint_id IN
       /\ id \in CkptIds
       /\ checkpoints'[id].present
       /\ tickets'[id].status = "pending"

CleanDecisionRun(s, d) ==
    /\ Returned(s)
    /\ runs[s].kind = "decision"
    /\ runs[s].st.human_decision = Enum(d)
    /\ runs[s].st.errors = <<>>

\* C9: a run resumed with ACCEPT goes from the gate through HITL_DECISION,
\* RECONCILE, APPROVE, POSTING, NOTIFY and COMPLETE in that order and,
\* absent handler errors, ends COMPLETED.
C9_AcceptPath ==
    \A s \in Slots :
        CleanDecisionRun(s, "ACCEPT")
        => /\ FromGate(runs[s].invoked) =
                  <<"CHECKPOINT_HITL", "HITL_DECISION", "RECONCILE", "APPROVE",
                    "POSTING", "NOTIFY", "COMPLETE">>
           /\ PyEq(runs[s].st.status, Str("COMPLETED"))

\* C10: a run resumed with REJECT goes from the gate through HITL_DECISION
\* directly to COMPLETE, invoking none of RECONCILE, APPROVE, POSTING,
\* NOTIFY, and ends MANUAL_HANDOFF.
C10_RejectPath ==
    \A s \in Slots :
        CleanDecisionRun(s, "REJECT")
        => /\ FromGate(runs[s].invoked) = <<"CHECKPOINT_HITL", "HITL_DECISION", "COMPLETE">>
           /\ PyEq(runs[s].st.status, Str("MANUAL_HANDOFF"))

\* the stages of a run whose match passes
PassPath ==
    <<"INTAKE", "UNDERSTAND", "PREPARE", "RETRIEVE", "MATCH_TWO_WAY",
      "RECONCILE", "APPROVE", "POSTING", "NOTIFY", "COMPLETE">>

\* a first invocation that returned without handler error, on an invoice whose
\* amount equals the retrieved purchase-order total, within the auto-approval
\* threshold and with no risk flag raised
EqualAmountRun(s) ==
    LET st == runs[s].st IN
    /\ Returned(s)
    /\ runs[s].kind = "execute"
    /\ st.errors = <<>>
    /\ st.matched_pos.n > 0
    /\ st.parsed_invoice.amount = st.matched_pos.total
    /\ st.parsed_invoice.amount <= AutoApprovalThreshold
    /\ st.risk.risk_score <= HighRiskScore
    /\ ~st.risk.high_risk
    /\ ~st.risk.new_vendor

\* C11: an invocation on an invoice whose amount equals the purchase-order
\* total and is within the auto-approval threshold passes the match, creates
\* no checkpoint, auto-approves and ends COMPLETED with posted = true and one
\* execution_history entry per stage of the pass path.
C11_EqualAmountPasses ==
    \A s \in Slots :
        EqualAmountRun(s)
        => LET st == runs[s].st IN
           /\ PyEq(st.match_result, Enum("PASSED"))
           /\ st.hitl_checkpoint_id = 0
           /\ PyEq(st.approval_status, Enum("AUTO_APPROVED"))
           /\ PyEq(st.status, Str("COMPLETED"))
           /\ st.posted = "true"
           /\ st.execution_history = PassPath

(***************************************************************************)
(* The matching stage on a grid of inputs: the run of one execute request  *)
(* that has reached MATCH_TWO_WAY, for every invoice amount, line-item     *)
(* count and purchase-order answer of the grid, followed to its return.    *)
(***************************************************************************)
\* line items on an invoice or on the purchase orders: 0..MaxLines
MaxLines == 2

MatchAmounts == {0, 100, 15000}

\* purchase-order totals, in percent of the invoice amount
Percents == {0, 50, 75, 76, 90, 94, 95, 96, 100, 104, 105, 106, 110, 125, 150, 200}

MatchPayloads ==
    {[kind |-> "valid", amount |-> a, lines |-> l] : a \in MatchAmounts, l \in 0..MaxLines}

MatchPOs(amount) ==
    {NoPOs} \cup
    {[n |-> 1, total |-> (amount * p) \div 100, lines |-> l] :
        p \in Percents, l \in 0..MaxLines}

\* the state of an execute run after INTAKE, UNDERSTAND, PREPARE and RETRIEVE
StateAtMatch(payload, risk, pos) ==
    LET st0 == [EmptyState EXCEPT !.invoice_payload = payload, !.workflow_id = "w1",
                                  !.current_stage = "INTAKE"]
        st1 == intake_node(st0, FALSE)
        st2 == understand_node(st1, FALSE)
        st3 == prepare_node(st2, FALSE, risk)
    IN retrieve_node(st3, FALSE, pos)

InitMatch ==
    \E payload \in MatchPayloads, risk \in RiskChoices :
        \E pos \in MatchPOs(payload.amount) :
            LET st == StateAtMatch(payload, risk, pos) IN
            /\ runs = [s \in Slots |->
                         [pc |-> "MATCH_TWO_WAY", kind |-> "execute", wf |-> "w1", ckpt |-> 0,
                          st |-> st, http |-> 0,
                          invoked |-> <<"INTAKE", "UNDERSTAND", "PREPARE", "RETRIEVE">>]]
            /\ thread = [w \in AllWorkflows |-> IF w = "w1" THEN st ELSE EmptyState]
            /\ issued = {"w1"}
            /\ checkpoints = [c \in CkptIds |-> NoCheckpoint]
            /\ tickets = [c \in CkptIds |-> NoTicket]
            /\ ckptCount = 0
            /\ calls = [w \in AllWorkflows |->
                          [g \in StageSet |->
                              IF w = "w1" /\ g \in {"INTAKE", "UNDERSTAND", "PREPARE", "RETRIEVE"}
                              THEN 1 ELSE 0]]
            /\ erpPosts = [w \in AllWorkflows |-> 0]
            /\ requests = 1
            /\ faults = 0
            /\ restarts = 0

NextMatch ==
    \/ \E s \in Slots : StepMatch(s)
    \/ \E s \in Slots : StepCheckpoint(s, "none")
    \/ \E s \in Slots : StepReconcile(s)
    \/ \E s \in Slots : StepApprove(s)
    \/ \E s \in Slots : StepPosting(s, FALSE)
    \/ \E s \in Slots : StepNotify(s, FALSE)
    \/ \E s \in Slots : StepComplete(s)

SpecMatch == InitMatch /\ [][NextMatch]_vars

\* the run has computed its match on purchase orders whose total differs
\* from the invoice amount by more than the tolerance
OverTolerance(s) ==
    LET st == runs[s].st IN
    /\ "MATCH_TWO_WAY" \in {runs[s].invoked[i] : i \in 1..Len(runs[s].invoked)}
    /\ st.matched_pos.n > 0
    /\ 100 * Abs(st.parsed_invoice.amount - st.matched_pos.total)
           > st.parsed_invoice.amount * TwoWayTolerancePct

\* C12: whenever the invoice amount and the purchase-order total differ by
\* more than the tolerance, the match score is below the threshold, the match
\* is FAILED and the run returns PAUSED at the gate with a checkpoint stored.
C12_OverToleranceFails ==
    \A s \in Slots :
        OverTolerance(s)
        => LET st == runs[s].st IN
           /\ st.match_score < MatchThreshold
           /\ PyEq(st.match_result, Enum("FAILED"))
           /\ Returned(s) => /\ PyEq(st.status, Str("PAUSED"))
                             /\ HasCheckpoint(st.hitl_checkpoint_id)

\* C13: checkpoint creation is atomic: in every reachable state a checkpoint
\* row exists for an id exactly when a review ticket exists for that id.
C13_CheckpointAndTicketTogether ==
    \A c \in CkptIds : checkpoints[c].present <=> tickets[c].status # "none"

\* the gate step of a run during which a store write raises
GateStoreFault(s) ==
    /\ runs[s].pc = "CHECKPOINT_HITL"
    /\ runs'[s].pc # "CHECKPOINT_HITL"
    /\ faults' = faults + 1

\* C14: when the store fails while the gate creates the checkpoint, the error
\* is reported, the run is left PAUSED and it ends at the gate.
C14_StoreFailureLeavesPaused ==
    [][\A s \in Slots :
          GateStoreFault(s)
          => /\ Len(runs'[s].st.errors) = Len(runs[s].st.errors) + 1
             /\ PyEq(runs'[s].st.status, Str("PAUSED"))
             /\ runs'[s].pc = "done"]_vars

\* the HITL_DECISION step of a run during which update_review_decision raises
HitlStoreFault(s) ==
    /\ runs[s].pc = "HITL_DECISION"
    /\ runs'[s].pc # "HITL_DECISION"
    /\ faults' = faults + 1

AfterDecisionStages == {"RECONCILE", "APPROVE", "POSTING", "NOTIFY"}

\* C15: when recording the decision fails, in submit_decision or in
\* HITL_DECISION, the failure is surfaced and the run does not go on to
\* RECONCILE, APPROVE, POSTING or NOTIFY.
C15_DecisionStoreFailureStops ==
    [][\A s \in Slots :
          /\ HitlStoreFault(s)
                => /\ Len(runs'[s].st.errors) = Len(runs[s].st.errors) + 1
                   /\ runs'[s].pc \notin AfterDecisionStages
          /\ \A c \in CkptIds, d \in Decisions, r \in Reviewers :
                (HasCheckpoint(c) /\ submit_decision(s, c, d, r, TRUE))
                    => (runs'[s].http = 500 /\ runs'[s].wf = "")]_vars

\* C16: a run that reaches the gate with a decision already present creates
\* no checkpoint and no ticket.
C16_NoCheckpointWhenDecided ==
    [][\A s \in Slots :
          (runs[s].pc = "CHECKPOINT_HITL" /\ runs'[s].pc # "CHECKPOINT_HITL"
              /\ Truthy(runs[s].st.human_decision))
          => (ckptCount' = ckptCount /\ checkpoints' = checkpoints
                 /\ tickets' = tickets)]_vars

IsPrefix(a, b) == Len(a) <= Len(b) /\ SubSeq(b, 1, Len(a)) = a

\* C17: execution_history is append-only: while the process lives, the
\* history of a workflow before any step is a prefix of its history after it.
C17_HistoryAppendOnly ==
    [][restarts' = restarts
          => \A w \in AllWorkflows :
                 IsPrefix(thread[w].execution_history, thread'[w].execution_history)]_vars

\* a resume_workflow run that has returned, on a checkpoint with a recorded decision
ResumedOnDecided(s) ==
    /\ Returned(s)
    /\ runs[s].kind = "resume"
    /\ tickets[runs[s].ckpt].status = "reviewed"

\* C18: resume on a checkpoint with a recorded decision runs with that
\* decision and reviewer merged into the state, under the original
\* workflow_id, to a terminal status: it does not pause again.
C18_ResumeMergesDecision ==
    \A s \in Slots :
        ResumedOnDecided(s)
        => LET st == runs[s].st
               tk == tickets[runs[s].ckpt]
           IN /\ PyEq(st.human_decision, Str(tk.decision))
              /\ st.reviewer_id = tk.reviewer_id
              /\ st.workflow_id = checkpoints[runs[s].ckpt].workflow_id
              /\ ~PyEq(st.status, Str("PAUSED"))

\* C19: the snapshot stored at a gate pause equals the state returned to the
\* caller at the pause, the gate's own history entry and pause fields included.
C19_SnapshotIsReturnedState ==
    \A s \in Slots :
        (Returned(s) /\ PyEq(runs[s].st.status, Str("PAUSED"))
            /\ HasCheckpoint(runs[s].st.hitl_checkpoint_id))
        => load_checkpoint(runs[s].st.hitl_checkpoint_id) = Serialize(runs[s].st)

\* C20: a checkpoint whose ticket carries a recorded decision is RESOLVED,
\* never still ACTIVE.
C20_DecidedCheckpointResolved ==
    \A c \in CkptIds :
        tickets[c].status = "reviewed" => checkpoints[c].status = "resolved"

\* C21: list_pending_reviews holds exactly the tickets awaiting a decision:
\* a listed ticket carries no decision, a ticket enters the list only by
\* being created, leaves it only by a recorded decision, and a reviewed
\* ticket is never listed again.
C21_PendingListTracksDecisions ==
    [][\A c \in CkptIds :
          /\ c \in list_pending_reviews
                => (tickets[c].decision = "" /\ tickets[c].reviewed_at = 0)
          /\ (c \notin list_pending_reviews /\ tickets'[c].status = "pending")
                => (tickets[c].status = "none" /\ ckptCount' = c)
          /\ (c \in list_pending_reviews /\ tickets'[c].status # "pending")
                => (tickets'[c].status = "reviewed" /\ tickets'[c].decision \in Decisions)
          /\ tickets[c].status = "reviewed" => tickets'[c].status = "reviewed"]_vars

\* one ticket has left the pending list by a decision while another is listed
C21_ReviewedAndPending ==
    \E c, c2 \in CkptIds :
        /\ tickets[c].status = "reviewed"
        /\ tickets[c].decision \in Decisions
        /\ c \notin list_pending_reviews
        /\ c2 \in list_pending_reviews

\* a decision or resume request naming a checkpoint id the store does not hold
UnknownCheckpointRequest(s) ==
    /\ requests' = requests + 1
    /\ runs'[s] # runs[s]
    /\ runs'[s].kind \in {"decision", "resume"}
    /\ ~HasCheckpoint(runs'[s].ckpt)

\* C22: a decision or resume request for an unknown checkpoint id is answered
\* 404 Not Found, starts no graph run, and leaves every checkpoint, ticket,
\* thread and handler-call count as it was.
C22_UnknownCheckpointNotFound ==
    [][\A s \in Slots :
          UnknownCheckpointRequest(s)
             => /\ runs'[s].pc = "done"
                /\ runs'[s].http = 404
                /\ runs'[s].invoked = <<>>
                /\ UNCHANGED <<checkpoints, tickets, thread, ckptCount, calls,
                               erpPosts, issued>>]_vars

\* an unknown id was refused while a checkpoint and its ticket were on file
C22_RefusedWithStoreFilled ==
    \E s \in Slots, c \in CkptIds :
        /\ runs[s].pc = "done"
        /\ runs[s].kind \in {"decision", "resume"}
        /\ runs[s].http = 404
        /\ ~HasCheckpoint(runs[s].ckpt)
        /\ HasCheckpoint(c)
        /\ tickets[c].status = "pending"

\* Python == between two state dictionaries: a str-Enum member equals its
\* value, a datetime equals no string
PyStateEq(a, b) ==
    \A k \in DOMAIN a :
        IF k \in {"match_result", "human_decision", "approval_status", "status"}
        THEN a[k] = b[k] \/ PyEq(a[k], b[k])
        ELSE a[k] = b[k]

\* C23: load_checkpoint(c) after save_checkpoint(c, s) returns a state equal
\* to s, with the same workflow_id.
C23_SaveLoadRoundTrip ==
    [][\A c \in CkptIds :
          (~HasCheckpoint(c) /\ checkpoints'[c].present)
             => \E s \in Slots :
                   /\ runs[s].pc = "CHECKPOINT_HITL"
                   /\ checkpoints'[c].workflow_id = runs[s].st.workflow_id
                   /\ PyStateEq(checkpoints'[c].state_blob, runs[s].st)]_vars

\* C24: whenever MATCH_TWO_WAY has run, the match_result it leaves is PASSED
\* exactly when match_score >= MATCH_THRESHOLD and FAILED otherwise; a score
\* equal to the threshold passes and every score below it fails.
C24_ThresholdIsInclusive ==
    [][\A s \in Slots :
          (runs[s].pc = "MATCH_TWO_WAY" /\ runs'[s].pc # "MATCH_TWO_WAY")
             => LET st == runs'[s].st IN
                /\ st.match_result \in {Enum("PASSED"), Enum("FAILED")}
                /\ st.match_result = Enum("PASSED") <=> st.match_score >= MatchThreshold
                /\ st.match_result = Enum("FAILED") <=> st.match_score < MatchThreshold]_vars

\* a match whose score is exactly the threshold has passed
C24_ScoreAtThresholdPassed ==
    \E s \in Slots :
        /\ runs[s].st.match_score = MatchThreshold
        /\ runs[s].st.match_result = Enum("PASSED")
        /\ runs[s].st.execution_history # <<>>

(***************************************************************************)
(* graph.ainvoke is awaited by its request handler: an invocation that has *)
(* a next node keeps being scheduled until the graph reaches END.         *)
(***************************************************************************)
RunStep(s) ==
    \/ \E f \in FaultOptions : StepIntake(s, f)
    \/ \E f \in FaultOptions : StepUnderstand(s, f)
    \/ \E f \in FaultOptions, k \in RiskChoices : StepPrepare(s, f, k)
    \/ \E f \in FaultOptions :
           \E pos \in POChoices(runs[s].st.parsed_invoice.amount) : StepRetrieve(s, f, pos)
    \/ StepMatch(s)
    \/ \E sf \in StoreFaults : StepCheckpoint(s, sf)
    \/ \E f \in FaultOptions : StepHitl(s, f)
    \/ StepReconcile(s)
    \/ StepApprove(s)
    \/ \E f \in FaultOptions : StepPosting(s, f)
    \/ \E f \in FaultOptions : StepNotify(s, f)
    \/ StepComplete(s)

MaxFairRequests == 2

\* the requests of Next, at most MaxFairRequests of them
FairNext == Next /\ requests' <= MaxFairRequests

FairSpec == Init /\ [][FairNext]_vars /\ \A s \in Slots : WF_vars(RunStep(s))

\* the last handler an invocation ran
LastInvoked(s) == runs[s].invoked[Len(runs[s].invoked)]

\* every step of an invocation runs exactly the one handler it is positioned at
OneHandlerPerStep(s) ==
    (InFlight(s) /\ runs'[s] # runs[s])
       => /\ runs'[s].invoked = Append(runs[s].invoked, runs[s].pc)
          /\ calls' = [calls EXCEPT ![runs[s].wf][runs[s].pc] = @ + 1]
          /\ runs'[s].pc \in (StageSet \cup {"done"}) \ {runs[s].pc}

\* an invocation ends after COMPLETE, or at the gate with no decision present
StopsAtSuspensionPoint(s) ==
    (InFlight(s) /\ runs'[s].pc = "done")
       => \/ runs[s].pc = "COMPLETE"
          \/ runs[s].pc = "CHECKPOINT_HITL" /\ ~Truthy(runs'[s].st.human_decision)

\* C25: every invocation of the graph terminates; it runs its handlers one
\* at a time and ends only after COMPLETE or at the gate CHECKPOINT_HITL
\* when no human decision is present.
C25_InvocationTerminates ==
    /\ [][\A s \in Slots : OneHandlerPerStep(s) /\ StopsAtSuspensionPoint(s)]_vars
    /\ \A s \in Slots : InFlight(s) ~> Returned(s)

\* one invocation has ended at the gate and a later one after COMPLETE
C25_StoppedAtBothPlaces ==
    \E s \in Slots :
        /\ Returned(s)
        /\ Resumed(s)
        /\ LastInvoked(s) = "COMPLETE"
        /\ "HITL_DECISION" \in {runs[s].invoked[i] : i \in 1..Len(runs[s].invoked)}
        /\ \E c \in CkptIds : HasCheckpoint(c) /\ checkpoints[c].state_blob.human_decision = None

FinalStatuses == {"PAUSED", "COMPLETED", "FAILED", "MANUAL_HANDOFF"}

\* C26: when an invocation returns, the state's status is one of PAUSED,
\* COMPLETED, FAILED, MANUAL_HANDOFF (never absent), and it is PAUSED only
\* if the invocation stopped at the gate CHECKPOINT_HITL.
C26_ReturnedStatusIsFinal ==
    \A s \in Slots :
        Returned(s)
           => /\ runs[s].st.status # None
              /\ runs[s].st.status[2] \in FinalStatuses
              /\ runs[s].st.status[2] = "PAUSED" => LastInvoked(s) = "CHECKPOINT_HITL"

\* a resumed invocation has returned MANUAL_HANDOFF after COMPLETE, its
\* predecessor having returned PAUSED at the gate
C26_HandoffAfterPause ==
    \E s \in Slots :
        /\ Returned(s)
        /\ Resumed(s)
        /\ LastInvoked(s) = "COMPLETE"
        /\ runs[s].st.status = Enum("MANUAL_HANDOFF")
        /\ HasCheckpoint(runs[s].ckpt)

\* C27: when COMPLETE has run, the status it leaves is FAILED if the errors
\* list is non-empty, otherwise MANUAL_HANDOFF if the human decision is
\* REJECT, otherwise COMPLETED.
C27_FinalStatusPrecedence ==
    [][\A s \in Slots :
          (runs[s].pc = "COMPLETE" /\ runs'[s].pc = "done")
             => LET st == runs'[s].st IN
                /\ st.errors # <<>> => st.status = Enum("FAILED")
                /\ (st.errors = <<>> /\ PyEq(st.human_decision, Enum("REJECT")))
                      => st.status = Enum("MANUAL_HANDOFF")
                /\ (st.errors = <<>> /\ ~PyEq(st.human_decision, Enum("REJECT")))
                      => st.status = Enum("COMPLETED")
                /\ (st.errors = runs[s].st.errors \/ CompleteRaises(runs[s].st))]_vars

\* COMPLETE has run on a rejected invoice whose errors list was not empty
C27_RejectedWithErrorsFailed ==
    \E s \in Slots :
        /\ Returned(s)
        /\ LastInvoked(s) = "COMPLETE"
        /\ PyEq(runs[s].st.human_decision, Enum("REJECT"))
        /\ runs[s].st.errors # <<>>
        /\ runs[s].st.status = Enum("FAILED")

\* the stage a run moves to when it leaves "stage", "done" standing for a pause
MovesFrom(s, stage) == runs[s].pc = stage /\ runs'[s].pc # stage

\* C28: the stage that follows each routed stage is determined by the state
\* the stage leaves: after MATCH_TWO_WAY it is CHECKPOINT_HITL iff
\* match_result is FAILED, else RECONCILE; after CHECKPOINT_HITL it is
\* HITL_DECISION iff a human decision is present, else the run pauses; after
\* HITL_DECISION it is RECONCILE iff the decision is ACCEPT, else COMPLETE.
C28_RoutersFollowState ==
    [][\A s \in Slots :
          LET st == runs'[s].st
              nxt == runs'[s].pc
          IN
          /\ MovesFrom(s, "MATCH_TWO_WAY")
                => /\ nxt \in {"CHECKPOINT_HITL", "RECONCILE"}
                   /\ nxt = "CHECKPOINT_HITL" <=> st.match_result[2] = "FAILED"
          /\ MovesFrom(s, "CHECKPOINT_HITL")
                => /\ nxt \in {"HITL_DECISION", "done"}
                   /\ nxt = "HITL_DECISION" <=> st.human_decision # None
          /\ MovesFrom(s, "HITL_DECISION")
                => /\ nxt \in {"RECONCILE", "COMPLETE"}
                   /\ nxt = "RECONCILE" <=> st.human_decision[2] = "ACCEPT"]_vars

\* a run has been routed to the gate, on to the decision and on to RECONCILE
C28_RoutedThroughAllThree ==
    \E s \in Slots :
        LET inv == {runs[s].invoked[i] : i \in 1..Len(runs[s].invoked)} IN
        /\ {"MATCH_TWO_WAY", "CHECKPOINT_HITL", "HITL_DECISION", "RECONCILE"} \subseteq inv
        /\ runs[s].st.human_decision[2] = "ACCEPT"

(***************************************************************************)
(* Fault-free requests on two workflow ids, served one after the other     *)
(***************************************************************************)
NextTwo ==
    \/ \E s \in Slots, w \in AllWorkflows, p \in ValidPayloads : execute_workflow(s, w, p)
    \/ \E s \in Slots, c \in KnownIds, d \in Decisions, r \in Reviewers :
           submit_decision(s, c, d, r, FALSE)
    \/ \E s \in Slots, w \in AllWorkflows, c \in KnownIds : resume_workflow(s, w, c)
    \/ \E s \in Slots : StepIntake(s, FALSE)
    \/ \E s \in Slots : StepUnderstand(s, FALSE)
    \/ \E s \in Slots, k \in RiskChoices : StepPrepare(s, FALSE, k)
    \/ \E s \in Slots :
           \E pos \in POChoices(runs[s].st.parsed_invoice.amount) : StepRetrieve(s, FALSE, pos)
    \/ \E s \in Slots : StepMatch(s)
    \/ \E s \in Slots : StepCheckpoint(s, "none")
    \/ \E s \in Slots : StepHitl(s, FALSE)
    \/ \E s \in Slots : StepReconcile(s)
    \/ \E s \in Slots : StepApprove(s)
    \/ \E s \in Slots : StepPosting(s, FALSE)
    \/ \E s \in Slots : StepNotify(s, FALSE)
    \/ \E s \in Slots : StepComplete(s)

SpecTwo == Init /\ [][NextTwo]_vars

\* the checkpoint row, and with it the review ticket, belongs to workflow w
OwnedBy(cps, c, w) == cps[c].present /\ cps[c].workflow_id = w

\* C29: a step of a request served on one workflow's thread leaves the other
\* workflow's thread state and execution history, and every checkpoint and
\* review ticket of the other workflow, as they were, and adds none.
C29_WorkflowsAreIsolated ==
    [][\A s \in Slots, w, other \in AllWorkflows :
          (runs'[s] # runs[s] /\ runs'[s].wf = w /\ other # w)
             => /\ thread'[other] = thread[other]
                /\ calls'[other] = calls[other]
                /\ \A c \in CkptIds :
                      (OwnedBy(checkpoints, c, other) \/ OwnedBy(checkpoints', c, other))
                         => (checkpoints'[c] = checkpoints[c] /\ tickets'[c] = tickets[c])]_vars

\* the stages logged in a state's execution_history
LoggedStages(st) == {st.execution_history[i] : i \in 1..Len(st.execution_history)}

\* an invocation positioned at its first stage, which the workflow has logged
StartsAtCompletedStage(s) ==
    /\ InFlight(s)
    /\ runs[s].invoked = <<>>
    /\ runs[s].pc \in LoggedStages(runs[s].st)

\* C30: an invocation whose starting stage is already logged as completed
\* for its workflow is rejected: the stage's handler is not run again, and
\* the invocation ends FAILED with an error recorded.
C30_CompletedStartIsRejected ==
    [][\A s \in Slots :
          (StartsAtCompletedStage(s) /\ runs'[s] # runs[s])
             => /\ calls' = calls
                /\ runs'[s].pc = "done"
                /\ runs'[s].st.status[2] = "FAILED"
                /\ runs'[s].st.errors # runs[s].st.errors]_vars

\* the gate has just run on a failed match; its store writes raised iff the
\* step recorded an error
GateRanOnFailedMatch(s) ==
    /\ MovesFrom(s, "CHECKPOINT_HITL")
    /\ GateCreates(runs[s].st)

GateFaultSeen(s) ==
    IF runs'[s].st.errors = runs[s].st.errors THEN "none" ELSE "save"

ApproveAmounts == {100, 5000, 5001, 15000, 20000, 20001}

ApproveRisks ==
    {[risk_score |-> r, high_risk |-> h, new_vendor |-> n] :
        r \in {1500, 7000, 7001, 10000}, h \in BOOLEAN, n \in BOOLEAN}

\* the state of an execute run whose purchase order equals the invoice,
\* after MATCH_TWO_WAY and RECONCILE
StateAtApprove(amount, risk) ==
    LET payload == [kind |-> "valid", amount |-> amount, lines |-> 1]
        pos == [n |-> 1, total |-> amount, lines |-> 1]
    IN reconcile_node(match_node(StateAtMatch(payload, risk, pos)))

InitApprove ==
    \E amount \in ApproveAmounts, risk \in ApproveRisks :
        LET st == StateAtApprove(amount, risk) IN
        /\ runs = [s \in Slots |->
                     [pc |-> "APPROVE", kind |-> "execute", wf |-> "w1", ckpt |-> 0,
                      st |-> st, http |-> 0,
                      invoked |-> <<"INTAKE", "UNDERSTAND", "PREPARE", "RETRIEVE",
                                    "MATCH_TWO_WAY", "RECONCILE">>]]
        /\ thread = [w \in AllWorkflows |-> IF w = "w1" THEN st ELSE EmptyState]
        /\ issued = {"w1"}
        /\ checkpoints = [c \in CkptIds |-> NoCheckpoint]
        /\ tickets = [c \in CkptIds |-> NoTicket]
        /\ ckptCount = 0
        /\ calls = [w \in AllWorkflows |->
                      [g \in StageSet |->
                          IF w = "w1" /\ g \in {"INTAKE", "UNDERSTAND", "PREPARE", "RETRIEVE",
                                                "MATCH_TWO_WAY", "RECONCILE"}
                          THEN 1 ELSE 0]]
        /\ erpPosts = [w \in AllWorkflows |-> 0]
        /\ requests = 1
        /\ faults = 0
        /\ restarts = 0

NextApprove ==
    \/ \E s \in Slots : StepApprove(s)
    \/ \E s \in Slots : StepPosting(s, FALSE)
    \/ \E s \in Slots : StepNotify(s, FALSE)
    \/ \E s \in Slots : StepComplete(s)

SpecApprove == InitApprove /\ [][NextApprove]_vars

\* C32: the approval policy returns AUTO_APPROVED exactly when risk_score is
\* at most 0.7, high_risk is not set, it is not the case that new_vendor is
\* set and the amount exceeds 5000, and the amount is at most the
\* auto-approval threshold 20000; otherwise it returns PENDING_APPROVAL.
C32_AutoApprovalConditions ==
    [][\A s \in Slots :
          MovesFrom(s, "APPROVE")
             => LET st == runs[s].st
                    amount == st.parsed_invoice.amount
                    auto == /\ st.risk.risk_score <= 7000
                            /\ ~st.risk.high_risk
                            /\ ~(st.risk.new_vendor /\ amount > 5000)
                            /\ amount <= 20000
                IN runs'[s].st.approval_status =
                       IF auto THEN Enum("AUTO_APPROVED") ELSE Enum("PENDING_APPROVAL")]_vars

\* an invoice whose amount is exactly the threshold has been auto-approved
C32_AmountAtThresholdApproved ==
    \E s \in Slots :
        /\ "APPROVE" \in {runs[s].invoked[i] : i \in 1..Len(runs[s].invoked)}
        /\ runs[s].st.parsed_invoice.amount = AutoApprovalThreshold
        /\ runs[s].st.risk.risk_score = HighRiskScore
        /\ runs[s].st.approval_status = Enum("AUTO_APPROVED")

\* C33: submit_decision accepts only ACCEPT and REJECT, in any letter case:
\* any other value is answered 400 with no ticket, checkpoint or thread
\* changed and no graph run started, whether or not the checkpoint exists;
\* an accepted value is handed to the graph as the enum member it names.
C33_OnlyAcceptOrReject ==
    [][\A s \in Slots, c \in KnownIds, d \in RawDecisions, r \in Reviewers :
          submit_decision(s, c, d, r, FALSE)
             => IF d \in {"ACCEPT", "accept", "REJECT", "Reject"}
                THEN /\ runs'[s].http # 400
                     /\ HasCheckpoint(c)
                           => /\ runs'[s].pc = EntryPoint
                              /\ runs'[s].st.human_decision =
                                    Enum(IF d \in {"ACCEPT", "accept"} THEN "ACCEPT"
                                                                       ELSE "REJECT")
                ELSE /\ runs'[s].http = 400
                     /\ runs'[s].pc = "done"
                     /\ runs'[s].invoked = <<>>
                     /\ UNCHANGED <<checkpoints, tickets, thread, ckptCount, calls,
                                    erpPosts, issued>>]_vars

\* a decision outside ACCEPT/REJECT was refused while a ticket was pending
C33_RefusedWithTicketPending ==
    \E s \in Slots :
        /\ runs[s].pc = "done"
        /\ runs[s].http = 400
        /\ HasCheckpoint(runs[s].ckpt)
        /\ runs[s].ckpt \in list_pending_reviews

\* C34: the POSTING handler is invoked only in an invocation whose two-way
\* match result is PASSED or whose state holds the human decision ACCEPT.
C34_PostingNeedsPassOrAccept ==
    [][\A s \in Slots :
          MovesFrom(s, "POSTING")
             => \/ PyEq(runs[s].st.match_result, Enum("PASSED"))
                \/ PyEq(runs[s].st.human_decision, Enum("ACCEPT"))]_vars

\* POSTING has run in an invocation whose match failed and was accepted
C34_PostedAfterAccept ==
    \E s \in Slots :
        /\ "POSTING" \in {runs[s].invoked[i] : i \in 1..Len(runs[s].invoked)}
        /\ "HITL_DECISION" \in {runs[s].invoked[i] : i \in 1..Len(runs[s].invoked)}
        /\ PyEq(runs[s].st.match_result, Enum("FAILED"))
        /\ PyEq(runs[s].st.human_decision, Enum("ACCEPT"))

\* C35: the POSTING handler is invoked only on a state whose approval_status
\* is AUTO_APPROVED or APPROVED, and no step posts to the ERP an invoice
\* whose approval_status is PENDING_APPROVAL.
C35_PostingNeedsApproval ==
    [][\A s \in Slots :
          MovesFrom(s, "POSTING")
             => /\ runs[s].st.approval_status # None
                /\ runs[s].st.approval_status[2] \in {"AUTO_APPROVED", "APPROVED"}
                /\ erpPosts' # erpPosts
                      => runs[s].st.approval_status[2] # "PENDING_APPROVAL"]_vars

C37_HandoffNeverPosted ==
    \A s \in Slots :
        (Returned(s) /\ PyEq(runs[s].st.status, Enum("MANUAL_HANDOFF")))
           => /\ calls[runs[s].wf]["POSTING"] = 0
              /\ erpPosts[runs[s].wf] = 0
              /\ runs[s].st.posted # "true"

\* C38: once a run resumed by submit_decision has returned COMPLETED,
\* MANUAL_HANDOFF or FAILED, no review ticket of its workflow is pending, and
\* every ticket of the workflow carries the submitted decision.
C38_NoTicketLeftPending ==
    \A s \in Slots :
        (Returned(s) /\ runs[s].kind = "decision" /\ LastInvoked(s) = "COMPLETE")
           => \A c \in CkptIds :
                 (OwnedBy(checkpoints, c, runs[s].wf) /\ tickets[c].status # "none")
                    => /\ tickets[c].status = "reviewed"
                       /\ tickets[c].decision = runs[s].st.human_decision[2]

====
